---- MODULE Spec2Model ----
(***************************************************************************)
(* Model of Minefort-Keep-Alive's backup tooling:                          *)
(*   src/src/backup_and_upload.py  (collect over FTP, parallel download,   *)
(*                                  zip, publish to a git repository)      *)
(*   src/src/manage_git_backup.py  (publish an already downloaded archive) *)
(*                                                                         *)
(* Paths are records [abs, comps, dir]: a leading '/', the sequence of     *)
(* name components, and a trailing '/'.  String operations of the source   *)
(* (lstrip('/'), os.path.join, os.path.relpath, endswith('/')) are         *)
(* operators on these records.                                             *)
(***************************************************************************)
EXTENDS Integers, Sequences, FiniteSets, TLC

(***************************************************************************)
(* Bounds of the model                                                     *)
(***************************************************************************)
MaxNodes == 5        \* remote trees have at most this many entries
MaxListFail == 1     \* directory listings that fail during one traversal
MaxOld == 2          \* archives already tracked in the backup repository
MaxZipFail == 1      \* archive members whose write fails

(***************************************************************************)
(* Paths                                                                   *)
(***************************************************************************)
Path(a, c, d) == [abs |-> a, comps |-> c, dir |-> d]

\* str.lstrip('/'): the leading slash goes, everything else stays
Lstrip(p) == [p EXCEPT !.abs = FALSE]

\* os.path.join(a, b): an absolute b discards a
PathJoin(a, b) ==
    IF b.abs THEN b
    ELSE [abs |-> a.abs, comps |-> a.comps \o b.comps, dir |-> b.dir]

\* os.path.dirname of a path that does not end in '/'
Dirname(p) ==
    [abs |-> p.abs,
     comps |-> IF Len(p.comps) = 0 THEN <<>>
               ELSE SubSeq(p.comps, 1, Len(p.comps) - 1),
     dir |-> FALSE]

IsPrefix(s, t) == Len(s) <= Len(t) /\ SubSeq(t, 1, Len(s)) = s
IsStrictPrefix(s, t) == Len(s) < Len(t) /\ SubSeq(t, 1, Len(s)) = s

\* os.path.relpath(p, start) for p at or below start, as components
Relpath(c, start) == SubSeq(c, Len(start) + 1, Len(c))

(***************************************************************************)
(* Configuration                                                           *)
(***************************************************************************)
TEMP_LOCAL_DOWNLOAD_DIR == <<"temp_local_ftp_backup">>

\* ITEMS_TO_BACKUP as shipped, and other lists an operator may configure.
\* An entry is a string; it is compared with the listed path after
\* lstrip('/'), so an entry is modelled by the components of that string.
ItemsShipped == { <<"world">>, <<"world_nether">>, <<"world_the_end">>,
                  <<"usercache.json">> }
ItemsAllTop == { <<"world">>, <<"usercache.json">>, <<"logs">>, <<"notag">> }
ItemsPrefixed == { <<"srv", "world">>, <<"srv", "usercache.json">> }
FilterChoices == { ItemsShipped, ItemsAllTop, ItemsPrefixed, {} }

\* the environment variables the scripts require; a variable is unset, set
\* to the empty string, or set to a value
ConfigVars == {"FTP_USERNAME", "FTP_PASSWORD", "BACKUP_REPO_URL", "GITHUB_TOKEN"}
EnvStates == {"unset", "empty", "set"}
AllSet == [v \in ConfigVars |-> "set"]

\* truth value of os.environ.get(v): None and '' are false
Truthy(x) == x = "set"

\* the variables each script's validation names
RequiredVars(prog) ==
    IF prog = "backup_and_upload" THEN ConfigVars
    ELSE {"BACKUP_REPO_URL", "GITHUB_TOKEN"}

\* variant: only a missing variable is rejected, an empty one passes
ConfigCompleteNotNone(prog, e) == \A v \in RequiredVars(prog) : e[v] # "unset"

\* all([...]) of the validation
ConfigComplete(prog, e) == \A v \in RequiredVars(prog) : Truthy(e[v])

\* REMOTE_FTP_ROOT: the default '/' or an override such as '/srv'
RootChoices == { Path(TRUE, <<>>, FALSE), Path(TRUE, <<"srv">>, FALSE) }

(***************************************************************************)
(* The remote tree.  Entries are named relative to the traversal root and  *)
(* are listed in the order of NodeUniverse.  tag is the 'type' fact of the *)
(* listing; "none" stands for a listing without a 'type' key.              *)
(***************************************************************************)
NodeUniverse ==
    << [rel |-> <<"world">>,                      tag |-> "dir"],
       [rel |-> <<"world", "lnk">>,               tag |-> "link"],
       [rel |-> <<"world", "level.dat">>,         tag |-> "file"],
       [rel |-> <<"world", "data">>,              tag |-> "dir"],
       [rel |-> <<"world", "data", "level.dat">>, tag |-> "file"],
       [rel |-> <<"usercache.json">>,             tag |-> "file"],
       [rel |-> <<"logs">>,                       tag |-> "dir"],
       [rel |-> <<"logs", "latest.log">>,         tag |-> "file"],
       [rel |-> <<"notag">>,                      tag |-> "none"] >>

NodeIds == 1..Len(NodeUniverse)

ParentOf(i) ==
    LET r == NodeUniverse[i].rel
    IN  SubSeq(r, 1, Len(r) - 1)

\* a tree is a set of node ids in which every entry's parent is a directory
\* of the tree (or the root)
WellFormedTree(t) ==
    \A i \in t :
        \/ Len(NodeUniverse[i].rel) = 1
        \/ \E j \in t : /\ NodeUniverse[j].rel = ParentOf(i)
                        /\ NodeUniverse[j].tag = "dir"

Trees == { t \in SUBSET NodeIds : Cardinality(t) <= MaxNodes /\ WellFormedTree(t) }

(***************************************************************************)
(* State                                                                   *)
(***************************************************************************)
VARIABLES
    program,     \* which script runs: "backup_and_upload" or "manage_git_backup"
    env,         \* the required environment variables: unset, empty or set
    root,        \* REMOTE_FTP_ROOT
    filter,      \* ITEMS_TO_BACKUP
    tree,        \* the remote tree (constant during a run)
    remote0,     \* backup folder of the remote repository when the run starts
    pc,          \* position of the script
    exitCode,    \* "running", 0 or 1
    client,      \* aioftp session: "none", "open", "closed"
    stack,       \* activation records of collect_remote_items, innermost last
    collected,   \* remote_items_to_process
    listFailed,  \* directories whose listing raised
    listedOk,    \* directories whose listing returned
    pending,     \* remote files enqueued in the downloader, not yet transferred
    dlErrors,    \* download_results.errors
    localDirs,   \* directories on the local disk, as components
    localFiles,  \* files below the download directory, as components
    archive,     \* members of the zip at TEMP_ZIP_FILE_PATH
    zipExists,   \* the archive file exists on disk
    envFail,     \* the external operations that failed or timed out in this run
    remote,      \* backup folder at the tip of the remote repository: name -> bytes
    repoDir,     \* TEMP_REPO_DIR exists
    head,        \* backup folder in the clone's HEAD commit
    index,       \* backup folder in the clone's index
    wt,          \* backup folder in the clone's working tree
    pruneTodo,   \* old_backups_relative_paths still to visit
    rmIssued,    \* paths for which git rm was run
    commits,     \* commits created by this run
    pushed,      \* git push completed
    stages,      \* publisher steps completed so far, in order
    log,         \* the credential-derived messages printed so far
    sessionCwd,  \* current working directory of the aioftp session
    cwd,         \* current working directory of the process
    originalDir, \* original_dir of the publisher function, NoDir before its entry
    clonedAt     \* the directory git clone created, NoDir before the clone

inputVars == <<program, env, root, filter, tree, remote0>>
collectVars == <<client, stack, collected, listFailed, listedOk>>
localVars == <<pending, dlErrors, localDirs, localFiles, archive, zipExists>>
gitVars == <<remote, repoDir, head, index, wt, pruneTodo, rmIssued, commits, pushed, stages>>
dirVars == <<cwd, originalDir, clonedAt>>
vars == <<inputVars, collectVars, localVars, gitVars, pc, exitCode, envFail, log,
          sessionCwd, dirVars>>

\* the validation passes
cfgOk == ConfigComplete(program, env)

(***************************************************************************)
(* Messages.  A string is a sequence of pieces; a secret's value is a      *)
(* sequence of characters, so that masking and URL quoting act on it.      *)
(***************************************************************************)
\* the values of the secrets in the environment
SecretValue ==
    [FTP_USERNAME |-> <<"u", "@">>,
     FTP_PASSWORD |-> <<"p", "w">>,
     GITHUB_TOKEN |-> <<"g", "h", "p", "_">>]

\* urllib.parse.quote_plus: letters, digits and _.-~ stay, a space becomes
\* '+', anything else is percent-encoded
QuotePlusChar(c) ==
    CASE c = "@" -> "%40"
      [] c = ":" -> "%3A"
      [] c = "/" -> "%2F"
      [] c = " " -> "+"
      [] OTHER -> c
QuotePlus(str) == [i \in 1..Len(str) |-> QuotePlusChar(str[i])]

\* str.replace(old, new): every occurrence, left to right
RECURSIVE Replace(_, _, _)
Replace(str, old, new) ==
    IF old = <<>> \/ Len(str) < Len(old) THEN str
    ELSE IF SubSeq(str, 1, Len(old)) = old
         THEN new \o Replace(SubSeq(str, Len(old) + 1, Len(str)), old, new)
         ELSE <<Head(str)>> \o Replace(Tail(str), old, new)

\* print(f"Config: X = {'***' if X else 'Not Set'}")
ConfigLine(v, e) == <<"Config: ", v, " = ", IF Truthy(e[v]) THEN "***" ELSE "Not Set">>
ConfigLines(prog, e) == { ConfigLine(v, e) : v \in RequiredVars(prog) }

FtpHostPort == <<"ftp.minefort.com", ":", "21">>

\* print(f"Connecting to FTP (aioftp): {FTP_HOST}:{FTP_PORT} with user {FTP_USERNAME}")
ConnectLine ==
    <<"Connecting to FTP (aioftp): ">> \o FtpHostPort \o <<" with user ">>
        \o SecretValue["FTP_USERNAME"]

\* ftp_url = f'ftp://{encoded_username}:{encoded_password}@{FTP_HOST}:{FTP_PORT}{remote_path}'
FtpUrl ==
    <<"ftp://">> \o QuotePlus(SecretValue["FTP_USERNAME"]) \o <<":">>
        \o QuotePlus(SecretValue["FTP_PASSWORD"]) \o <<"@">> \o FtpHostPort
        \o <<"<remote_path>">>

\* print(f"- URL: {err_info.url}, Error: {error_details}")
DownloadErrorLine == <<"- URL: ">> \o FtpUrl \o <<", Error: ", "<response>">>

\* the token as each script embeds it in the URL's authority, and the
\* string each script replaces by '***' before printing
EmbeddedToken(prog) ==
    IF prog = "backup_and_upload" THEN SecretValue["GITHUB_TOKEN"]
    ELSE QuotePlus(SecretValue["GITHUB_TOKEN"])
MaskPattern(prog) ==
    IF prog = "backup_and_upload" THEN SecretValue["GITHUB_TOKEN"]
    ELSE QuotePlus(SecretValue["GITHUB_TOKEN"])

\* urlunparse(parsed_url._replace(netloc=f'oauth2:{token}@{hostname}'))
UrlWithToken(prog) ==
    <<"https://", "oauth2", ":">> \o EmbeddedToken(prog)
        \o <<"@", "github.com", "/owner/backups.git">>

CloneLine ==
    <<"Cloning backup repository ", "https://github.com/owner/backups.git",
      " into ", "temp_backup_repo", "...">>
CloneUrlLine(prog) ==
    <<"Cloning URL: ">> \o Replace(UrlWithToken(prog), MaskPattern(prog), <<"***">>)
PushUrlLine(prog) ==
    <<"Using push URL: ">> \o Replace(UrlWithToken(prog), MaskPattern(prog), <<"***">>)

(***************************************************************************)
(* collect_remote_items                                                    *)
(***************************************************************************)
IdSeq == [i \in NodeIds |-> i]

\* the working directory of a session after login, and the value used
\* while there is no session
LoginDir == Path(TRUE, <<>>, FALSE)
NoDir == Path(FALSE, <<>>, FALSE)

\* ftp_client.list(remote_dir): aioftp yields (remote_dir / name, info) for
\* each entry of the directory, i.e. full paths
FtpList(t, r, d) ==
    LET ids == SelectSeq(IdSeq, LAMBDA i :
                   i \in t /\ r.comps \o ParentOf(i) = d.comps)
    IN  [k \in 1..Len(ids) |->
            [path |-> Path(TRUE, r.comps \o NodeUniverse[ids[k]].rel, FALSE),
             tag |-> NodeUniverse[ids[k]].tag]]

\* item_name_for_filter = item_name_str.lstrip('/')
ItemNameForFilter(item) == Lstrip(item.path).comps

\* variant: the filter is consulted at every level of the tree
FilteredOutEverywhere(frame, item, r, f) == ItemNameForFilter(item) \notin f

\* the root-level filter: items_filter is not None and
\* remote_dir == REMOTE_FTP_ROOT and the name is not in items_filter
FilteredOut(frame, item, r, f) ==
    /\ frame.filtered
    /\ frame.dir = r
    /\ ItemNameForFilter(item) \notin f

\* full_remote_item_path = os.path.join(remote_dir, item_name_str)
FullRemoteItemPath(remoteDir, item) == PathJoin(remoteDir, item.path)

\* variant: an entry that is not a directory is taken for a file
ItemTypeGuessesFile(item) ==
    CASE item.tag = "dir" -> "dir"
      [] item.tag = "none" -> "None"
      [] OTHER -> "file"

\* item_type: 'dir', 'file', "skip" for any other tag (continue), and
\* "None" when the listing has no 'type' key
ItemType(item) ==
    CASE item.tag = "dir" -> "dir"
      [] item.tag = "file" -> "file"
      [] item.tag = "none" -> "None"
      [] OTHER -> "skip"

IsSlash(p) == p.abs /\ p.comps = <<>>

\* dir_path_for_list: the directory's path with a trailing '/'
DirPathForList(full) == IF IsSlash(full) THEN full ELSE [full EXCEPT !.dir = TRUE]

\* the records one listed item contributes before any recursion
ItemRecords(remoteDir, item) ==
    LET full == FullRemoteItemPath(remoteDir, item)
    IN  CASE ItemType(item) = "dir" ->
                IF IsSlash(DirPathForList(full)) THEN <<>>
                ELSE << [path |-> DirPathForList(full), kind |-> "dir"] >>
          [] ItemType(item) = "file" -> << [path |-> full, kind |-> "file"] >>
          [] OTHER -> <<>>

Frame(d, flt) == [dir |-> d, filtered |-> flt, listed |-> FALSE,
                  todo |-> <<>>, out |-> <<>>]

Top == stack[Len(stack)]
SetTop(fr) == [stack EXCEPT ![Len(stack)] = fr]

\* variant: the directory is entered with a change of working directory
\* and listed from inside, and the session is left there
CollectListChangesDir ==
    /\ pc = "collect" /\ stack # <<>> /\ ~Top.listed
    /\ stack' = SetTop([Top EXCEPT !.listed = TRUE,
                                   !.todo = FtpList(tree, root, Top.dir)])
    /\ listedOk' = listedOk \cup {Top.dir}
    /\ sessionCwd' = Top.dir
    /\ UNCHANGED dirVars
    /\ UNCHANGED <<inputVars, localVars, gitVars, pc, exitCode, client, collected, listFailed, envFail>>
    /\ UNCHANGED log

\* items_info = await ftp_client.list(remote_dir)
CollectList ==
    /\ pc = "collect" /\ stack # <<>> /\ ~Top.listed
    /\ stack' = SetTop([Top EXCEPT !.listed = TRUE,
                                   !.todo = FtpList(tree, root, Top.dir)])
    /\ listedOk' = listedOk \cup {Top.dir}
    /\ UNCHANGED <<inputVars, localVars, gitVars, pc, exitCode, client, collected, listFailed, envFail>>
    /\ UNCHANGED log
    /\ UNCHANGED <<sessionCwd, dirVars>>

\* variant: the records of the subdirectory are put in front of the
\* caller's list
ReturnFromPrepends(out) ==
    IF Len(stack) = 1
    THEN /\ stack' = <<>>
         /\ collected' = out
         /\ pc' = "close_client"
    ELSE /\ stack' = [SubSeq(stack, 1, Len(stack) - 1)
                        EXCEPT ![Len(stack) - 1].out = out \o @]
         /\ UNCHANGED <<collected, pc>>

\* the call a frame returns to: the caller extends its list, or
\* async_ftp_process receives the result
ReturnFrom(out) ==
    IF Len(stack) = 1
    THEN /\ stack' = <<>>
         /\ collected' = out
         /\ pc' = "close_client"
    ELSE /\ stack' = [SubSeq(stack, 1, Len(stack) - 1)
                        EXCEPT ![Len(stack) - 1].out = @ \o out]
         /\ UNCHANGED <<collected, pc>>

\* variant: the listing error is not caught and ends the whole traversal
CollectListFailPropagates ==
    /\ pc = "collect" /\ stack # <<>> /\ ~Top.listed
    /\ Cardinality(listFailed) < MaxListFail
    /\ listFailed' = listFailed \cup {Top.dir}
    /\ stack' = <<>>
    /\ collected' = <<>>
    /\ pc' = "close_client"
    /\ envFail' = envFail \cup {"list"}
    /\ UNCHANGED <<inputVars, localVars, gitVars, exitCode, client, listedOk>>
    /\ UNCHANGED log
    /\ UNCHANGED <<sessionCwd, dirVars>>

\* the listing raises: log and return the (empty) list
CollectListFail ==
    /\ pc = "collect" /\ stack # <<>> /\ ~Top.listed
    /\ Cardinality(listFailed) < MaxListFail
    /\ listFailed' = listFailed \cup {Top.dir}
    /\ ReturnFrom(Top.out)
    /\ envFail' = envFail \cup {"list"}
    /\ UNCHANGED <<inputVars, localVars, gitVars, exitCode, client, listedOk>>
    /\ UNCHANGED log
    /\ UNCHANGED <<sessionCwd, dirVars>>

\* variant: a loop that advances only after an item it keeps, so that a
\* filtered item is examined again and again
CollectItemStalls ==
    /\ pc = "collect" /\ stack # <<>> /\ Top.listed /\ Top.todo # <<>>
    /\ LET item == Head(Top.todo)
           rest == [Top EXCEPT !.todo = Tail(@)]
           full == FullRemoteItemPath(Top.dir, item)
       IN  IF FilteredOut(Top, item, root, filter)
           THEN stack' = stack
           ELSE LET added == [rest EXCEPT !.out = @ \o ItemRecords(Top.dir, item)]
                IN  IF ItemType(item) = "dir"
                    THEN stack' = Append(SetTop(added), Frame(full, FALSE))
                    ELSE stack' = SetTop(added)
    /\ UNCHANGED <<inputVars, localVars, gitVars, pc, exitCode, client, collected, listFailed, listedOk, envFail>>
    /\ UNCHANGED log
    /\ UNCHANGED <<sessionCwd, dirVars>>

\* one iteration of the for loop over items_info
CollectItem ==
    /\ pc = "collect" /\ stack # <<>> /\ Top.listed /\ Top.todo # <<>>
    /\ LET item == Head(Top.todo)
           rest == [Top EXCEPT !.todo = Tail(@)]
           full == FullRemoteItemPath(Top.dir, item)
       IN  IF FilteredOut(Top, item, root, filter)
           THEN stack' = SetTop(rest)
           ELSE LET added == [rest EXCEPT !.out = @ \o ItemRecords(Top.dir, item)]
                IN  IF ItemType(item) = "dir"
                    THEN stack' = Append(SetTop(added), Frame(full, FALSE))
                    ELSE stack' = SetTop(added)
    /\ UNCHANGED <<inputVars, localVars, gitVars, pc, exitCode, client, collected, listFailed, listedOk, envFail>>
    /\ UNCHANGED log
    /\ UNCHANGED <<sessionCwd, dirVars>>

\* return remote_items
CollectReturn ==
    /\ pc = "collect" /\ stack # <<>> /\ Top.listed /\ Top.todo = <<>>
    /\ ReturnFrom(Top.out)
    /\ UNCHANGED <<inputVars, localVars, gitVars, exitCode, client, listFailed, listedOk, envFail>>
    /\ UNCHANGED log
    /\ UNCHANGED <<sessionCwd, dirVars>>

(***************************************************************************)
(* async_ftp_process                                                       *)
(***************************************************************************)
\* os.makedirs(p, exist_ok=True): p and every missing ancestor
MakeDirs(c) == { SubSeq(c, 1, k) : k \in 1..Len(c) }

\* variant: the file is saved under its base name only
LocalSavePathFlat(remotePath) ==
    TEMP_LOCAL_DOWNLOAD_DIR \o << remotePath.comps[Len(remotePath.comps)] >>

\* local_save_path_full = os.path.join(TEMP_LOCAL_DOWNLOAD_DIR, remote_path.lstrip('/'))
LocalSavePath(remotePath) ==
    PathJoin(Path(FALSE, TEMP_LOCAL_DOWNLOAD_DIR, FALSE), Lstrip(remotePath)).comps

\* local_dir_path_full for a collected directory
LocalDirPath(dirPath) ==
    PathJoin(Path(FALSE, TEMP_LOCAL_DOWNLOAD_DIR, FALSE), Lstrip(dirPath)).comps

RemoteFilePaths(items) == { items[k].path : k \in { j \in 1..Len(items) : items[j].kind = "file" } }
RemoteDirPaths(items) == { items[k].path : k \in { j \in 1..Len(items) : items[j].kind = "dir" } }

BelowDownloadDir(c) == IsPrefix(TEMP_LOCAL_DOWNLOAD_DIR, c)

\* shutil.rmtree(TEMP_LOCAL_DOWNLOAD_DIR) when it exists
RmtreeDownloadDir ==
    /\ localDirs' = { d \in localDirs : ~BelowDownloadDir(d) }
    /\ localFiles' = { f \in localFiles : ~BelowDownloadDir(f) }

\* an exception leaves async_ftp_process: its handler removes the download
\* directory and closes the client, __main__ removes the zip and exits 1
FtpProcessRaises ==
    /\ RmtreeDownloadDir
    /\ client' = IF client = "none" THEN "none" ELSE "closed"
    /\ zipExists' = FALSE
    /\ archive' = {}
    /\ pc' = "done"
    /\ exitCode' = 1

\* module-level validation and the initial cleanup of __main__
Validate ==
    /\ pc = "validate"
    /\ IF ~cfgOk
       THEN /\ pc' = "done" /\ exitCode' = 1
            /\ UNCHANGED localVars
       ELSE /\ pc' = IF program = "backup_and_upload" THEN "connect" ELSE "argv"
            /\ IF program = "backup_and_upload"
               THEN /\ RmtreeDownloadDir
                    /\ zipExists' = FALSE
                    /\ archive' = {}
                    /\ UNCHANGED <<pending, dlErrors>>
               ELSE UNCHANGED localVars
            /\ UNCHANGED exitCode
    /\ UNCHANGED <<inputVars, collectVars, gitVars, envFail>>
    /\ log' = log \cup ConfigLines(program, env)
    /\ UNCHANGED <<sessionCwd, dirVars>>

\* client = aioftp.Client(); await wait_for(client.connect(...), 90)
Connect ==
    /\ pc = "connect"
    /\ client' = "created"
    /\ pc' = "login"
    /\ UNCHANGED <<inputVars, localVars, gitVars, exitCode, stack, collected,
                   listFailed, listedOk, envFail>>
    /\ log' = log \cup {ConnectLine}
    /\ UNCHANGED <<sessionCwd, dirVars>>

\* the connection attempt times out or is refused
ConnectFail ==
    /\ pc = "connect"
    /\ envFail' = envFail \cup {"connect"}
    /\ RmtreeDownloadDir
    /\ client' = "closed"
    /\ zipExists' = FALSE /\ archive' = {}
    /\ pc' = "done" /\ exitCode' = 1
    /\ UNCHANGED <<inputVars, gitVars, stack, collected, listFailed, listedOk,
                   pending, dlErrors>>
    /\ log' = log \cup {ConnectLine}
    /\ UNCHANGED <<sessionCwd, dirVars>>

\* await client.login(...) and the call of collect_remote_items
Login ==
    /\ pc = "login"
    /\ client' = "open"
    /\ stack' = << Frame(root, TRUE) >>
    /\ pc' = "collect"
    /\ UNCHANGED <<inputVars, localVars, gitVars, exitCode, collected,
                   listFailed, listedOk, envFail>>
    /\ UNCHANGED log
    /\ sessionCwd' = LoginDir
    /\ UNCHANGED dirVars

\* variant: __main__ logs the failure of the FTP stage and goes on to the
\* GitHub stage
LoginFailFallsThrough ==
    /\ pc = "login"
    /\ envFail' = envFail \cup {"login"}
    /\ RmtreeDownloadDir
    /\ client' = "closed"
    /\ pc' = "git_start"
    /\ UNCHANGED <<inputVars, gitVars, stack, collected, listFailed, listedOk,
                   pending, dlErrors, archive, zipExists, exitCode>>
    /\ UNCHANGED log
    /\ UNCHANGED <<sessionCwd, dirVars>>

\* await client.login(...) raises
LoginFail ==
    /\ pc = "login"
    /\ envFail' = envFail \cup {"login"}
    /\ FtpProcessRaises
    /\ UNCHANGED <<inputVars, gitVars, stack, collected, listFailed, listedOk,
                   pending, dlErrors>>
    /\ UNCHANGED log
    /\ UNCHANGED <<sessionCwd, dirVars>>

\* variant: the session is kept open for the rest of the run
CloseClientLeavesOpen ==
    /\ pc = "close_client"
    /\ pc' = "split"
    /\ UNCHANGED <<inputVars, localVars, gitVars, exitCode, client, stack, collected,
                   listFailed, listedOk, envFail>>
    /\ UNCHANGED log
    /\ UNCHANGED <<sessionCwd, dirVars>>

\* await client.close() after the collection; an error is only logged
CloseClient ==
    /\ pc = "close_client"
    /\ client' = "closed"
    /\ pc' = "split"
    /\ UNCHANGED <<inputVars, localVars, gitVars, exitCode, stack, collected,
                   listFailed, listedOk, envFail>>
    /\ UNCHANGED log
    /\ UNCHANGED <<sessionCwd, dirVars>>

\* variant: the run is given up when no file was found, whatever the
\* directories
EnqueueNeedsFiles ==
    /\ pc = "split"
    /\ IF RemoteFilePaths(collected) = {}
       THEN /\ pc' = "done" /\ exitCode' = 1
            /\ UNCHANGED localVars
       ELSE /\ localDirs' = { d \in localDirs : ~BelowDownloadDir(d) }
                    \cup {TEMP_LOCAL_DOWNLOAD_DIR}
                    \cup UNION { MakeDirs(Dirname(Path(FALSE, LocalSavePath(f), FALSE)).comps)
                                   : f \in RemoteFilePaths(collected) }
            /\ localFiles' = { f \in localFiles : ~BelowDownloadDir(f) }
            /\ pending' = RemoteFilePaths(collected)
            /\ pc' = "download"
            /\ UNCHANGED <<exitCode, dlErrors, archive, zipExists>>
    /\ UNCHANGED <<inputVars, collectVars, gitVars, envFail>>
    /\ UNCHANGED log
    /\ UNCHANGED <<sessionCwd, dirVars>>

\* variant: an empty result is treated like any other and the download
\* directory is created for it
EnqueueWithoutEmptyTest ==
    /\ pc = "split"
    /\ LET files == RemoteFilePaths(collected)
       IN  /\ localDirs' = { d \in localDirs : ~BelowDownloadDir(d) }
                   \cup {TEMP_LOCAL_DOWNLOAD_DIR}
                   \cup UNION { MakeDirs(Dirname(Path(FALSE, LocalSavePath(f), FALSE)).comps)
                                  : f \in files }
           /\ localFiles' = { f \in localFiles : ~BelowDownloadDir(f) }
           /\ pending' = files
           /\ pc' = IF files = {} THEN "mkdirs" ELSE "download"
           /\ UNCHANGED <<exitCode, dlErrors, archive, zipExists>>
    /\ UNCHANGED <<inputVars, collectVars, gitVars, envFail>>
    /\ UNCHANGED log
    /\ UNCHANGED <<sessionCwd, dirVars>>

\* lines 475-532: split the records, return False when there are none,
\* recreate the download directory, enqueue every file
Enqueue ==
    /\ pc = "split"
    /\ LET files == RemoteFilePaths(collected)
           dirs == RemoteDirPaths(collected)
       IN  IF files = {} /\ dirs = {}
           THEN /\ pc' = "done" /\ exitCode' = 1
                /\ UNCHANGED localVars
           ELSE /\ localDirs' = { d \in localDirs : ~BelowDownloadDir(d) }
                        \cup {TEMP_LOCAL_DOWNLOAD_DIR}
                        \cup UNION { MakeDirs(Dirname(Path(FALSE, LocalSavePath(f), FALSE)).comps)
                                       : f \in files }
                /\ localFiles' = { f \in localFiles : ~BelowDownloadDir(f) }
                /\ pending' = files
                /\ pc' = IF files = {} THEN "mkdirs" ELSE "download"
                /\ UNCHANGED <<exitCode, dlErrors, archive, zipExists>>
    /\ UNCHANGED <<inputVars, collectVars, gitVars, envFail>>
    /\ UNCHANGED log
    /\ UNCHANGED <<sessionCwd, dirVars>>

\* one of the parallel transfers of dl.download() completes
Transfer(f) ==
    /\ pc = "download" /\ f \in pending
    /\ pending' = pending \ {f}
    /\ localFiles' = localFiles \cup {LocalSavePath(f)}
    /\ UNCHANGED <<inputVars, collectVars, gitVars, pc, exitCode, envFail,
                   dlErrors, localDirs, archive, zipExists>>
    /\ UNCHANGED log
    /\ UNCHANGED <<sessionCwd, dirVars>>

\* one of the parallel transfers fails
TransferFail(f) ==
    /\ pc = "download" /\ f \in pending
    /\ pending' = pending \ {f}
    /\ dlErrors' = dlErrors \cup {f}
    /\ envFail' = envFail \cup {"transfer"}
    /\ UNCHANGED <<inputVars, collectVars, gitVars, pc, exitCode,
                   localDirs, localFiles, archive, zipExists>>
    /\ UNCHANGED log
    /\ UNCHANGED <<sessionCwd, dirVars>>

\* variant: download errors are logged and the run goes on
DownloadDoneIgnoresErrors ==
    /\ pc = "download" /\ pending = {}
    /\ pc' = "mkdirs"
    /\ UNCHANGED <<inputVars, collectVars, localVars, gitVars, exitCode, envFail>>
    /\ UNCHANGED log
    /\ UNCHANGED <<sessionCwd, dirVars>>

\* dl.download() returns: any error raises RuntimeError
DownloadDone ==
    /\ pc = "download" /\ pending = {}
    /\ IF dlErrors # {}
       THEN /\ FtpProcessRaises
            /\ UNCHANGED <<pending, dlErrors>>
       ELSE /\ pc' = "mkdirs"
            /\ UNCHANGED <<localVars, client, exitCode>>
    /\ UNCHANGED <<inputVars, gitVars, stack, collected, listFailed, listedOk, envFail>>
    /\ log' = log \cup (IF dlErrors # {} THEN {DownloadErrorLine} ELSE {})
    /\ UNCHANGED <<sessionCwd, dirVars>>

\* lines 553-564: a local directory for every collected directory
MkDirs ==
    /\ pc = "mkdirs"
    /\ localDirs' = localDirs \cup
           UNION { MakeDirs(LocalDirPath(d)) : d \in RemoteDirPaths(collected) }
    /\ pc' = "zip"
    /\ UNCHANGED <<inputVars, collectVars, gitVars, exitCode, envFail,
                   pending, dlErrors, localFiles, archive, zipExists>>
    /\ UNCHANGED log
    /\ UNCHANGED <<sessionCwd, dirVars>>

(***************************************************************************)
(* zip_local_directory                                                     *)
(***************************************************************************)
\* the members os.walk(local_dir) gives rise to: a marker for every
\* directory below local_dir, a file member for every file
ZipMembers(dirs, files) ==
    { [name |-> Relpath(d, TEMP_LOCAL_DOWNLOAD_DIR), dir |-> TRUE]
        : d \in { x \in dirs : IsStrictPrefix(TEMP_LOCAL_DOWNLOAD_DIR, x) } }
    \cup
    { [name |-> Relpath(f, TEMP_LOCAL_DOWNLOAD_DIR), dir |-> FALSE]
        : f \in { x \in files : IsStrictPrefix(TEMP_LOCAL_DOWNLOAD_DIR, x) } }

\* variant: an error while writing a member is not caught and ends the run
ZipLocalDirectoryAborts ==
    /\ pc = "zip"
    /\ \E failed \in SUBSET ZipMembers(localDirs, localFiles) :
          /\ Cardinality(failed) <= MaxZipFail
          /\ envFail' = envFail \cup (IF failed # {} THEN {"zip_member"} ELSE {})
          /\ IF failed # {}
             THEN FtpProcessRaises
             ELSE /\ archive' = ZipMembers(localDirs, localFiles)
                  /\ zipExists' = TRUE
                  /\ RmtreeDownloadDir
                  /\ pc' = "git_start"
                  /\ UNCHANGED <<client, exitCode>>
    /\ UNCHANGED <<inputVars, gitVars, stack, collected, listFailed, listedOk,
                   pending, dlErrors>>
    /\ UNCHANGED log
    /\ UNCHANGED <<sessionCwd, dirVars>>

\* the archive is written (members whose write fails are skipped), the
\* download directory is removed, async_ftp_process returns True and
\* __main__ finds the zip
ZipLocalDirectory ==
    /\ pc = "zip"
    /\ \E failed \in SUBSET ZipMembers(localDirs, localFiles) :
          /\ Cardinality(failed) <= MaxZipFail
          /\ archive' = ZipMembers(localDirs, localFiles) \ failed
          /\ envFail' = envFail \cup (IF failed # {} THEN {"zip_member"} ELSE {})
    /\ zipExists' = TRUE
    /\ RmtreeDownloadDir
    /\ pc' = "git_start"
    /\ UNCHANGED <<inputVars, collectVars, gitVars, exitCode, pending, dlErrors>>
    /\ UNCHANGED log
    /\ UNCHANGED <<sessionCwd, dirVars>>

\* the archive file cannot be opened for writing: the exception is re-raised
ZipOpenFail ==
    /\ pc = "zip"
    /\ envFail' = envFail \cup {"zip_open"}
    /\ FtpProcessRaises
    /\ UNCHANGED <<inputVars, gitVars, stack, collected, listFailed, listedOk,
                   pending, dlErrors>>
    /\ UNCHANGED log
    /\ UNCHANGED <<sessionCwd, dirVars>>

(***************************************************************************)
(* The backup repository.  A file of the backup folder is named by its     *)
(* timestamp (server_backup_<n>.zip); its bytes are "new" when they equal  *)
(* the archive this run publishes and "old" otherwise.                     *)
(***************************************************************************)
NewName == MaxOld + 1          \* os.path.basename of the archive to publish
OldNames == 1..MaxOld

Remove(f, x) == [n \in DOMAIN f \ {x} |-> f[n]]
Put(f, x, v) == [n \in DOMAIN f \cup {x} |-> IF n = x THEN v ELSE f[n]]

\* the states the remote backup folder may be in before a run: some old
\* archives, and possibly a file that already has the new archive's name
RemoteChoices ==
    { [n \in (1..k) \cup c |-> IF n = NewName THEN b ELSE "old"]
        : k \in 0..MaxOld, c \in {{}, {NewName}}, b \in {"old", "new"} }

\* sorted(glob.glob(BACKUP_FOLDER_IN_REPO/server_backup_*.zip))
SortedGlob(files) ==
    [i \in 1..Cardinality(DOMAIN files) |->
        CHOOSE x \in DOMAIN files : Cardinality({y \in DOMAIN files : y < x}) = i - 1]

\* 'git status' understands --porcelain; an unknown option is a usage error
GitStatusAccepts(flag) == flag \in {"--porcelain", "--short", "--long"}

\* the option each script passes to 'git status'
StatusFlag(prog) ==
    IF prog = "backup_and_upload" THEN "--portuguese" ELSE "--porcelain"

\* git status --porcelain prints something: staged changes, unstaged
\* changes or untracked files
StatusOutput(h, i, w) == h # i \/ i # w

\* the prune loop leaves out the new archive's own name
PruneSkips(prog, x) == prog = "backup_and_upload" /\ x = NewName

\* git rm --cached x: drop x from the index
GitRmCached(i, x, ok) == IF ok /\ x \in DOMAIN i THEN Remove(i, x) ELSE i

\* git rm -f x: drop a tracked x from the index and the working tree;
\* a path that is not in the index matches nothing
GitRmForceIndex(i, x, ok) == IF ok /\ x \in DOMAIN i THEN Remove(i, x) ELSE i
GitRmForceTree(i, w, x, ok) == IF ok /\ x \in DOMAIN i THEN Remove(w, x) ELSE w

\* the directory the script is started in, and the relative path of the
\* scratch clone
StartDir == Path(TRUE, <<"work">>, FALSE)
TEMP_REPO_DIR == Path(FALSE, <<"temp_backup_repo">>, FALSE)

\* os.path.exists(TEMP_REPO_DIR) as seen from working directory d: the
\* relative path names the clone only from the directory it was cloned in
RepoDirExistsFrom(d) == repoDir /\ PathJoin(d, TEMP_REPO_DIR) = clonedAt

\* variant: the publisher function returns without changing back
RestoreDirSkipped == UNCHANGED cwd

\* finally: os.chdir(original_dir)
RestoreDir == cwd' = originalDir

\* the finally block of __main__ and process exit; the paths are resolved
\* in the working directory the process has by then
MainFinally(code) ==
    /\ repoDir' = IF RepoDirExistsFrom(cwd') THEN FALSE ELSE repoDir
    /\ zipExists' = FALSE
    /\ archive' = {}
    /\ pc' = "done"
    /\ exitCode' = code
    /\ stages' = Append(stages, IF code = 0 THEN "Pushed" ELSE "Failed")

gitFrame == <<inputVars, collectVars, pending, dlErrors, localDirs, localFiles>>

\* manage_git_backup.py __main__: argv and the downloaded file
Argv ==
    /\ pc = "argv"
    /\ \E given \in BOOLEAN :
          IF ~given \/ ~zipExists
          THEN /\ pc' = "done" /\ exitCode' = 1
          ELSE /\ pc' = "git_start" /\ UNCHANGED exitCode
    /\ UNCHANGED <<inputVars, collectVars, localVars, gitVars, envFail>>
    /\ UNCHANGED log
    /\ UNCHANGED <<sessionCwd, dirVars>>

\* stale clone removed, setup_git_credentials()
SetupGit ==
    /\ pc = "git_start"
    /\ repoDir' = IF RepoDirExistsFrom(cwd) THEN FALSE ELSE repoDir
    /\ pc' = "clone"
    /\ UNCHANGED <<inputVars, collectVars, localVars, exitCode, envFail,
                   remote, head, index, wt, pruneTodo, rmIssued, commits, pushed, stages>>
    /\ UNCHANGED log
    /\ UNCHANGED <<sessionCwd, dirVars>>

SetupGitFail ==
    /\ pc = "git_start"
    /\ envFail' = envFail \cup {"git_config"}
    /\ UNCHANGED cwd
    /\ MainFinally(1)
    /\ UNCHANGED <<gitFrame, remote, head, index, wt, pruneTodo, rmIssued,
                   commits, pushed>>
    /\ UNCHANGED log
    /\ UNCHANGED <<sessionCwd, originalDir, clonedAt>>

\* clone_backup_repo succeeds: the clone holds the remote's tip
Clone ==
    /\ pc = "clone"
    /\ repoDir' = TRUE
    /\ head' = remote /\ index' = remote /\ wt' = remote
    /\ stages' = Append(stages, "Cloned")
    /\ pc' = "prune_start"
    /\ UNCHANGED <<inputVars, collectVars, localVars, exitCode, envFail,
                   remote, pruneTodo, rmIssued, commits, pushed>>
    /\ log' = log \cup {CloneLine, CloneUrlLine(program)}
    /\ clonedAt' = PathJoin(cwd, TEMP_REPO_DIR)
    /\ UNCHANGED <<sessionCwd, cwd, originalDir>>

\* the URL cannot be built, or git clone fails or times out
CloneFail ==
    /\ pc = "clone"
    /\ envFail' = envFail \cup {"clone"}
    /\ UNCHANGED cwd
    /\ MainFinally(1)
    /\ UNCHANGED <<gitFrame, remote, head, index, wt, pruneTodo, rmIssued,
                   commits, pushed>>
    /\ \E built \in BOOLEAN :
          log' = log \cup {CloneLine} \cup (IF built THEN {CloneUrlLine(program)} ELSE {})
    /\ UNCHANGED <<sessionCwd, originalDir, clonedAt>>

\* original_dir = os.getcwd(), os.chdir(repo_dir) and the glob for old
\* archives
PruneStart ==
    /\ pc = "prune_start"
    /\ originalDir' = cwd
    /\ cwd' = PathJoin(cwd, TEMP_REPO_DIR)
    /\ pruneTodo' = SortedGlob(wt)
    /\ stages' = IF wt = <<>> THEN Append(stages, "Pruned") ELSE stages
    /\ pc' = "prune"
    /\ UNCHANGED <<inputVars, collectVars, localVars, exitCode, envFail,
                   remote, repoDir, head, index, wt, rmIssued, commits, pushed>>
    /\ UNCHANGED log
    /\ UNCHANGED <<sessionCwd, clonedAt>>

\* one iteration of the prune loop: git rm --cached, then git rm -f
PruneOne ==
    /\ pc = "prune" /\ pruneTodo # <<>>
    /\ LET x == Head(pruneTodo)
       IN  IF PruneSkips(program, x)
           THEN UNCHANGED <<index, wt, rmIssued, envFail>>
           ELSE \E ok1, ok2 \in BOOLEAN :
                  LET i1 == GitRmCached(index, x, ok1)
                  IN  /\ index' = GitRmForceIndex(i1, x, ok2)
                      /\ wt' = GitRmForceTree(i1, wt, x, ok2)
                      /\ rmIssued' = rmIssued \cup {x}
                      /\ envFail' = envFail \cup (IF ok1 /\ ok2 THEN {} ELSE {"git_rm"})
    /\ pruneTodo' = Tail(pruneTodo)
    /\ stages' = IF Tail(pruneTodo) = <<>> THEN Append(stages, "Pruned") ELSE stages
    /\ UNCHANGED <<inputVars, collectVars, localVars, exitCode, pc,
                   remote, repoDir, head, commits, pushed>>
    /\ UNCHANGED log
    /\ UNCHANGED <<sessionCwd, dirVars>>

\* variant: the new archive is staged first and the old ones pruned after
StageThenPrune ==
    /\ pc = "prune" /\ pruneTodo = <<>>
    /\ wt' = Put(wt, NewName, "new")
    /\ index' = Put(index, NewName, "new")
    /\ stages' = Append(stages, "Staged")
    /\ pc' = "prune_start"
    /\ UNCHANGED <<inputVars, collectVars, localVars, exitCode, envFail,
                   remote, repoDir, head, pruneTodo, rmIssued, commits, pushed>>
    /\ UNCHANGED log
    /\ UNCHANGED <<sessionCwd, dirVars>>

\* shutil.copy2 into the backup folder and git add
Stage ==
    /\ pc = "prune" /\ pruneTodo = <<>>
    /\ wt' = Put(wt, NewName, "new")
    /\ index' = Put(index, NewName, "new")
    /\ stages' = Append(stages, "Staged")
    /\ pc' = "status"
    /\ UNCHANGED <<inputVars, collectVars, localVars, exitCode, envFail,
                   remote, repoDir, head, pruneTodo, rmIssued, commits, pushed>>
    /\ UNCHANGED log
    /\ UNCHANGED <<sessionCwd, dirVars>>

\* variant: git add runs with check=False, its failure is only logged
StageFailContinues ==
    /\ pc = "prune" /\ pruneTodo = <<>>
    /\ envFail' = envFail \cup {"stage"}
    /\ wt' = Put(wt, NewName, "new")
    /\ stages' = Append(stages, "Staged")
    /\ pc' = "status"
    /\ UNCHANGED <<inputVars, collectVars, localVars, exitCode,
                   remote, repoDir, head, index, pruneTodo, rmIssued, commits, pushed>>
    /\ UNCHANGED log
    /\ UNCHANGED <<sessionCwd, dirVars>>

\* the copy or git add fails
StageFail ==
    /\ pc = "prune" /\ pruneTodo = <<>>
    /\ envFail' = envFail \cup {"stage"}
    /\ RestoreDir
    /\ MainFinally(1)
    /\ UNCHANGED <<gitFrame, remote, head, index, wt, pruneTodo, rmIssued,
                   commits, pushed>>
    /\ UNCHANGED log
    /\ UNCHANGED <<sessionCwd, originalDir, clonedAt>>

\* git status with the script's option, check=True
Status ==
    /\ pc = "status"
    /\ IF ~GitStatusAccepts(StatusFlag(program))
       THEN /\ RestoreDir
            /\ MainFinally(1)
       ELSE /\ UNCHANGED cwd
            /\ pc' = IF StatusOutput(head, index, wt) THEN "commit" ELSE "push"
            /\ stages' = IF StatusOutput(head, index, wt) THEN stages
                          ELSE Append(stages, "NoOpSkipped")
            /\ UNCHANGED <<repoDir, zipExists, archive, exitCode>>
    /\ UNCHANGED <<gitFrame, envFail, remote, head, index, wt, pruneTodo,
                   rmIssued, commits, pushed>>
    /\ UNCHANGED log
    /\ UNCHANGED <<sessionCwd, originalDir, clonedAt>>

\* git commit -m: fails when the index equals HEAD (nothing to commit)
Commit ==
    /\ pc = "commit"
    /\ IF index = head
       THEN /\ RestoreDir
            /\ MainFinally(1)
            /\ UNCHANGED <<head, commits>>
       ELSE /\ UNCHANGED cwd
            /\ head' = index
            /\ commits' = commits + 1
            /\ stages' = Append(stages, "Committed")
            /\ pc' = "push"
            /\ UNCHANGED <<repoDir, zipExists, archive, exitCode>>
    /\ UNCHANGED <<gitFrame, envFail, remote, index, wt, pruneTodo,
                   rmIssued, pushed>>
    /\ UNCHANGED log
    /\ UNCHANGED <<sessionCwd, originalDir, clonedAt>>

\* variant: the handlers log the failure and do not call sys.exit
GitStepFailContinues ==
    /\ pc \in {"status", "commit", "push"}
    /\ envFail' = envFail \cup {pc}
    /\ IF pc = "push"
       THEN /\ RestoreDir
            /\ MainFinally(0)
       ELSE /\ UNCHANGED cwd
            /\ pc' = "push"
            /\ UNCHANGED <<repoDir, zipExists, archive, exitCode, stages>>
    /\ UNCHANGED <<gitFrame, remote, head, index, wt, pruneTodo, rmIssued,
                   commits, pushed>>
    /\ UNCHANGED log
    /\ UNCHANGED <<sessionCwd, originalDir, clonedAt>>

\* git status, git commit, git remote, git rev-parse or git push fails or
\* times out
GitStepFail ==
    /\ pc \in {"status", "commit", "push"}
    /\ envFail' = envFail \cup {pc}
    /\ RestoreDir
    /\ MainFinally(1)
    /\ UNCHANGED <<gitFrame, remote, head, index, wt, pruneTodo, rmIssued,
                   commits, pushed>>
    /\ \E printed \in BOOLEAN :
          log' = log \cup (IF pc = "push" /\ printed THEN {PushUrlLine(program)} ELSE {})
    /\ UNCHANGED <<sessionCwd, originalDir, clonedAt>>

\* git push succeeds, the publisher returns, __main__ cleans up and ends
Push ==
    /\ pc = "push"
    /\ remote' = head
    /\ pushed' = TRUE
    /\ RestoreDir
    /\ MainFinally(0)
    /\ UNCHANGED <<gitFrame, envFail, head, index, wt, pruneTodo, rmIssued, commits>>
    /\ log' = log \cup {PushUrlLine(program)}
    /\ UNCHANGED <<sessionCwd, originalDir, clonedAt>>

(***************************************************************************)
(* Specification                                                           *)
(***************************************************************************)
\* The publisher reads nothing of the remote tree and the collector nothing
\* of the backup repository, so a run of backup_and_upload.py varies either
\* the FTP side (with one old archive in the repository) or the repository
\* (with a small tree); a run with an incomplete configuration ends before
\* it reads anything else.  manage_git_backup.py does not read the FTP
\* credentials.
OneOld == [n \in {1} |-> "old"]
SmallTree == {1, 3}

InitInputs ==
    \/ /\ program \in {"backup_and_upload", "manage_git_backup"}
       /\ env \in [ConfigVars -> EnvStates]
       /\ \E v \in RequiredVars(program) : env[v] # "set"
       /\ root = Path(TRUE, <<>>, FALSE) /\ filter = ItemsShipped /\ tree = {}
       /\ zipExists \in (IF program = "manage_git_backup" THEN BOOLEAN ELSE {FALSE})
       /\ remote0 = <<>>
    \/ /\ env = AllSet
       /\ program = "backup_and_upload"
       /\ root \in RootChoices
       /\ filter \in FilterChoices
       /\ tree \in Trees
       /\ zipExists = FALSE
       /\ remote0 = OneOld
    \/ /\ env = AllSet
       /\ program = "backup_and_upload"
       /\ root = Path(TRUE, <<>>, FALSE) /\ filter = ItemsShipped /\ tree = SmallTree
       /\ zipExists = FALSE
       /\ remote0 \in RemoteChoices
    \/ /\ env \in {AllSet, [AllSet EXCEPT !["FTP_USERNAME"] = "unset",
                                          !["FTP_PASSWORD"] = "unset"]}
       /\ program = "manage_git_backup"
       /\ root = Path(TRUE, <<>>, FALSE) /\ filter = ItemsShipped /\ tree = {}
       /\ zipExists \in BOOLEAN
       /\ remote0 \in RemoteChoices

Init ==
    /\ InitInputs
    /\ remote = remote0
    /\ stages = <<>>
    /\ pc = "validate"
    /\ exitCode = "running"
    /\ client = "none"
    /\ stack = <<>>
    /\ collected = <<>>
    /\ listFailed = {}
    /\ listedOk = {}
    /\ pending = {}
    /\ dlErrors = {}
    /\ localDirs = {}
    /\ localFiles = {}
    /\ archive = {}
    /\ envFail = {}
    /\ repoDir = FALSE
    /\ head = <<>> /\ index = <<>> /\ wt = <<>>
    /\ pruneTodo = <<>>
    /\ rmIssued = {}
    /\ commits = 0
    /\ pushed = FALSE
    /\ log = {}
    /\ sessionCwd = NoDir
    /\ cwd = StartDir
    /\ originalDir = NoDir
    /\ clonedAt = NoDir

AllRemoteFiles == { Path(TRUE, r.comps \o NodeUniverse[i].rel, FALSE) : r \in RootChoices, i \in NodeIds }

Next ==
    \/ Validate
    \/ Connect
    \/ ConnectFail
    \/ Login
    \/ LoginFail
    \/ CollectList
    \/ CollectListFail
    \/ CollectItem
    \/ CollectReturn
    \/ CloseClient
    \/ Enqueue
    \/ \E f \in AllRemoteFiles : Transfer(f)
    \/ \E f \in AllRemoteFiles : TransferFail(f)
    \/ DownloadDone
    \/ MkDirs
    \/ ZipLocalDirectory
    \/ ZipOpenFail
    \/ Argv
    \/ SetupGit
    \/ SetupGitFail
    \/ Clone
    \/ CloneFail
    \/ PruneStart
    \/ PruneOne
    \/ Stage
    \/ StageFail
    \/ Status
    \/ Commit
    \/ GitStepFail
    \/ Push

Spec == Init /\ [][Next]_vars

\* The scripts are sequential: while the process has not exited its next
\* statement is executed, and every external operation returns, fails or
\* times out (the awaited calls and subprocess runs carry timeouts).
FairSpec == Spec /\ WF_vars(Next)

(***************************************************************************)
(* Vocabulary of the properties                                            *)
(***************************************************************************)
Range(q) == { q[k] : k \in DOMAIN q }

CollectedSet == Range(collected)

\* every record emitted so far, returned or still held by an activation
InFlight == CollectedSet \cup UNION { Range(stack[k].out) : k \in DOMAIN stack }

\* the remote path of entry i of the tree, and the record a complete
\* traversal holds for it
NodePath(i) == Path(TRUE, root.comps \o NodeUniverse[i].rel, FALSE)
RecordOf(i) ==
    IF NodeUniverse[i].tag = "dir"
    THEN [path |-> [NodePath(i) EXCEPT !.dir = TRUE], kind |-> "dir"]
    ELSE [path |-> NodePath(i), kind |-> "file"]

Typed(i) == NodeUniverse[i].tag \in {"dir", "file"}
TopLevelName(i) == << NodeUniverse[i].rel[1] >>
TopLevelRecord(i) ==
    [path |-> Path(TRUE, root.comps \o TopLevelName(i), TRUE), kind |-> "dir"]

FileMembers(a) == { m \in a : ~m.dir }
DirMarkers(a) == { m \in a : m.dir }

\* ArchivePath of the specification: the remote path relative to the
\* configured root, directories with a trailing separator
RootRelativeName(rec) ==
    [name |-> Relpath(rec.path.comps, root.comps), dir |-> rec.kind = "dir"]

\* the member the program writes for a collected record
ArchivePathOf(rec) ==
    IF rec.kind = "file"
    THEN [name |-> Relpath(LocalSavePath(rec.path), TEMP_LOCAL_DOWNLOAD_DIR), dir |-> FALSE]
    ELSE [name |-> Relpath(LocalDirPath(rec.path), TEMP_LOCAL_DOWNLOAD_DIR), dir |-> TRUE]

NewOnly == [n \in {NewName} |-> "new"]

(***************************************************************************)
(* C1.  For a tree whose entries are all tagged file or dir, a run without *)
(* failures and a filter that contains every top-level name, the collector *)
(* returns a record for every entry and the archive has exactly one file   *)
(* member per remote file and one directory marker per remote directory.   *)
(* Stated as claimed; it fails for a traversal root other than '/'.        *)
(***************************************************************************)
C1_Pre ==
    /\ program = "backup_and_upload" /\ cfgOk /\ envFail = {}
    /\ \A i \in tree : Typed(i) /\ TopLevelName(i) \in filter

C1_ArchiveMirrorsTree ==
    C1_Pre =>
      /\ pc = "split" => CollectedSet = { RecordOf(i) : i \in tree }
      /\ pc = "git_start" =>
            /\ Cardinality(FileMembers(archive)) =
                 Cardinality({ i \in tree : NodeUniverse[i].tag = "file" })
            /\ Cardinality(DirMarkers(archive)) =
                 Cardinality({ i \in tree : NodeUniverse[i].tag = "dir" })

(***************************************************************************)
(* C2.  A top-level name that is not in the filter has no record, for      *)
(* itself or for anything beneath it, in the collector's result or in the  *)
(* archive.  Stated as claimed; it fails for a root other than '/'.        *)
(***************************************************************************)
C2_ExcludedSubtreeAbsent ==
    \A i \in tree :
        TopLevelName(i) \notin filter =>
            /\ \A rec \in InFlight : rec.path.comps # NodePath(i).comps
            /\ \A m \in archive : m.name # NodePath(i).comps
                                  /\ m.name # NodeUniverse[i].rel

(***************************************************************************)
(* C3.  The filter acts on the entries directly under the traversal root   *)
(* only: when a top-level directory has been included, every file and      *)
(* directory beneath it is collected, whatever its name.                   *)
(***************************************************************************)
C3_FilterOnlyAtRoot ==
    (pc = "split" /\ listFailed = {}) =>
        \A i \in tree :
            ( /\ Len(NodeUniverse[i].rel) > 1
              /\ Typed(i)
              /\ TopLevelRecord(i) \in CollectedSet )
            => RecordOf(i) \in CollectedSet

C3_Witness ==
    /\ pc = "split" /\ listFailed = {} /\ filter # {}
    /\ \E i \in tree :
          /\ Len(NodeUniverse[i].rel) > 2
          /\ RecordOf(i) \in CollectedSet
          /\ Lstrip(NodePath(i)).comps \notin filter

(***************************************************************************)
(* C4.  When the listing of a directory other than the starting path       *)
(* fails, the result still holds every record that a traversal without     *)
(* the failure holds and that does not lie beneath a failed directory.     *)
(***************************************************************************)
BeneathFailed(i) ==
    \E d \in listFailed : IsStrictPrefix(d.comps, NodePath(i).comps)

C4_ListFailureIsolated ==
    (pc = "split" /\ root \notin listFailed) =>
        \A i \in tree :
            ( /\ Typed(i)
              /\ root.comps \o TopLevelName(i) \in filter
              /\ ~BeneathFailed(i) )
            => RecordOf(i) \in CollectedSet

C4_Witness ==
    /\ pc = "split" /\ listFailed # {} /\ root \notin listFailed
    /\ \E i, j \in tree :
          /\ BeneathFailed(i) /\ RecordOf(i) \notin CollectedSet
          /\ ~BeneathFailed(j) /\ RecordOf(j) \in CollectedSet
          /\ \A d \in listFailed : d.comps # NodePath(j).comps

(***************************************************************************)
(* C5.  As claimed: when exactly one transfer fails (and nothing else),    *)
(* the run still reaches publication.                                      *)
(***************************************************************************)
C5_SingleDownloadFailureTolerated ==
    (pc = "done" /\ envFail = {"transfer"} /\ Cardinality(dlErrors) = 1)
        => "Cloned" \in Range(stages)

(***************************************************************************)
(* C5 as amended.  A failed transfer aborts the run: once the download     *)
(* stage ends with an error the process has exited with code 1, the        *)
(* download directory is gone, no archive exists and no publication step   *)
(* has run.                                                                *)
(***************************************************************************)
C5_DownloadFailureAborts ==
    (dlErrors # {} /\ pc # "download") =>
        /\ pc = "done" /\ exitCode = 1
        /\ ~zipExists /\ archive = {}
        /\ stages = <<>> /\ ~repoDir
        /\ \A d \in localDirs \cup localFiles : ~BelowDownloadDir(d)

C5_Witness ==
    /\ pc = "done" /\ Cardinality(dlErrors) = 1
    /\ Cardinality(RemoteFilePaths(collected)) >= 2

(***************************************************************************)
(* C6.  For every configured root the archive member of a collected entry  *)
(* is named by the entry's path relative to that root.  Stated as claimed; *)
(* it fails for a root other than '/'.                                     *)
(***************************************************************************)
C6_MembersRelativeToRoot ==
    (pc = "git_start" /\ "zip_member" \notin envFail) =>
        archive = { RootRelativeName(rec) : rec \in CollectedSet }

C8_CleanRunSucceeds ==
    ( /\ program = "backup_and_upload" /\ cfgOk /\ envFail = {}
      /\ collected # <<>> /\ pc = "done" )
    => (exitCode = 0 /\ pushed)

(***************************************************************************)
(* C9.  As claimed: after a successful publisher run the working copy's    *)
(* backup folder holds exactly the archive just published.                 *)
(***************************************************************************)
C9_OnlyNewArchiveRemains ==
    (pc = "done" /\ exitCode = 0 /\ envFail = {}) =>
        /\ wt = NewOnly
        /\ head = NewOnly

(***************************************************************************)
(* C10.  As claimed: publishing an archive that is byte-identical to the   *)
(* only tracked archive, which has the same name, creates no commit and    *)
(* ends with exit code 0, in either script.                                *)
(***************************************************************************)
C10_RepublishIsNoOp ==
    ( /\ pc = "done" /\ cfgOk /\ envFail = {}
      /\ "Cloned" \in Range(stages)
      /\ remote0 = NewOnly )
    => (commits = 0 /\ exitCode = 0)

(***************************************************************************)
(* C11.  The publisher's steps come in the order clone, prune, stage,      *)
(* commit-or-skip, push: no prune after the stage, a push only after the   *)
(* commit decision, and a run that started the publisher ends in exactly   *)
(* one of Pushed or Failed.                                                *)
(***************************************************************************)
PublisherRuns ==
    { <<"Cloned", "Pruned", "Staged", d, "Pushed">> : d \in {"Committed", "NoOpSkipped"} }

LastStage == IF stages = <<>> THEN "none" ELSE stages[Len(stages)]

C11_PublisherStepOrder ==
    /\ \E r \in PublisherRuns : \E k \in 0..5 :
          \/ stages = SubSeq(r, 1, k)
          \/ k < 5 /\ stages = Append(SubSeq(r, 1, k), "Failed")
    /\ pc = "push" => LastStage \in {"Committed", "NoOpSkipped"}
    /\ (pc = "done" /\ stages # <<>>) =>
          /\ LastStage \in {"Pushed", "Failed"}
          /\ LastStage = "Pushed" <=> (pushed /\ exitCode = 0)
    /\ pushed => LastStage = "Pushed"

C11_Witness ==
    /\ pc = "done" /\ rmIssued # {}
    /\ stages = <<"Cloned", "Pruned", "Staged", "Committed", "Pushed">>

(***************************************************************************)
(* C12.  When git clone, git commit or git push fails or times out, the    *)
(* process has exited with code 1 and no later publication step has run:   *)
(* nothing after a failed clone, no commit after a failed commit, no push  *)
(* after any of them.                                                      *)
(***************************************************************************)
C12_FatalGitFailureAborts ==
    \A s \in {"clone", "commit", "push"} :
        s \in envFail =>
            /\ pc = "done" /\ exitCode = 1
            /\ LastStage = "Failed"
            /\ ~pushed /\ remote = remote0
            /\ s = "clone" => stages = <<"Failed">>
            /\ s = "commit" => commits = 0 /\ "Committed" \notin Range(stages)

C12_Witness ==
    /\ pc = "done" /\ "push" \in envFail
    /\ commits = 1 /\ head # remote

(***************************************************************************)
(* C13.  The remote repository changes only by a completed push: while no  *)
(* push has completed it is as the run found it, and a run in which the    *)
(* clone, the stage, the status inspection or the commit failed has not    *)
(* pushed.                                                                 *)
(***************************************************************************)
C13_RemoteChangedOnlyByPush ==
    /\ ~pushed => remote = remote0
    /\ ( \/ envFail \cap {"clone", "stage", "status", "commit"} # {}
         \/ "Failed" \in Range(stages) )
       => /\ ~pushed
          /\ remote = remote0
          /\ pc = "done" /\ exitCode = 1

C13_Witness ==
    /\ pc = "done" /\ "stage" \in envFail
    /\ rmIssued # {} /\ index # head
    /\ remote = remote0 /\ remote # <<>>

(***************************************************************************)
(* C14.  As claimed: when the process has ended, on any path, the clone    *)
(* directory, the download directory and the archive file do not exist.    *)
(***************************************************************************)
C14_ScratchGoneAtExit ==
    pc = "done" =>
        /\ ~repoDir
        /\ ~zipExists
        /\ \A d \in localDirs \cup localFiles : ~BelowDownloadDir(d)

(***************************************************************************)
(* C15.  When the FTP connection or the login fails or times out, the      *)
(* process has exited with code 1, no clone was attempted and no archive   *)
(* file exists.                                                            *)
(***************************************************************************)
C15_ConnectionFailureAborts ==
    (envFail \cap {"connect", "login"} # {}) =>
        /\ pc = "done" /\ exitCode = 1
        /\ stages = <<>> /\ ~repoDir
        /\ ~zipExists /\ archive = {}
        /\ collected = <<>> /\ listedOk = {}

C15_Witness ==
    /\ pc = "done" /\ "login" \in envFail
    /\ client = "closed" /\ tree # {}

(***************************************************************************)
(* C16.  When a variable the script requires is unset or empty, the        *)
(* process exits with code 1 at the validation: no FTP client was created, *)
(* no listing, no git step and no other external operation has run.        *)
(***************************************************************************)
C16_MissingConfigExitsFirst ==
    (\E v \in RequiredVars(program) : env[v] # "set") =>
        /\ pc \in {"validate", "done"}
        /\ pc = "done" => exitCode = 1
        /\ client = "none" /\ listedOk = {} /\ listFailed = {}
        /\ stages = <<>> /\ ~repoDir /\ commits = 0 /\ ~pushed
        /\ envFail = {}

C16_Witness ==
    /\ pc = "done" /\ exitCode = 1
    /\ env = [AllSet EXCEPT !["GITHUB_TOKEN"] = "empty"]

(***************************************************************************)
(* C17.  As claimed: no printed message contains the raw FTP user name,    *)
(* the raw FTP password or the raw push token.                             *)
(***************************************************************************)
Contains(str, sub) ==
    \E i \in 1..(Len(str) - Len(sub) + 1) : SubSeq(str, i, i + Len(sub) - 1) = sub

LeakedIn(m) == { v \in DOMAIN SecretValue : Contains(m, SecretValue[v]) }

C17_NoRawCredentialEmitted == \A m \in log : LeakedIn(m) = {}

(***************************************************************************)
(* C18.  Every run reaches process exit, provided every external operation *)
(* returns, fails or times out; the traversal of the (finite) remote tree  *)
(* returns on the way.                                                     *)
(***************************************************************************)
C18_EveryRunTerminates == <>(pc = "done" /\ exitCode \in {0, 1} /\ stack = <<>>)

C18_Witness ==
    /\ pc = "done" /\ exitCode \in {0, 1}
    /\ Cardinality(listedOk) >= 3 /\ listFailed # {}

(***************************************************************************)
(* C19.  As claimed: every directory record of the collector's result is   *)
(* for a directory whose listing succeeded during the traversal, and a     *)
(* directory whose listing failed has no directory record.                 *)
(***************************************************************************)
C19_DirectoryRecordsWereEntered ==
    pc = "split" =>
        \A rec \in CollectedSet :
            rec.kind = "dir" =>
                /\ \E d \in listedOk : d.comps = rec.path.comps
                /\ \A d \in listFailed : d.comps # rec.path.comps

(***************************************************************************)
(* C20.  As claimed: an entry listed without a type tag is classified by   *)
(* a probe, so that when no operation fails it has a record, as a          *)
(* directory or as a file, in the collector's result.                      *)
(***************************************************************************)
C20_UntaggedClassifiedByProbe ==
    (pc = "split" /\ envFail = {}) =>
        \A i \in tree :
            ( /\ NodeUniverse[i].tag = "none"
              /\ root.comps \o TopLevelName(i) \in filter )
            => \E rec \in CollectedSet :
                  /\ rec.path.comps = NodePath(i).comps
                  /\ rec.kind \in {"dir", "file"}

(***************************************************************************)
(* C21.  As claimed: for every configured root, an entry directly under    *)
(* the root is collected if and only if its name relative to the root is   *)
(* in the filter.  It fails for a root other than '/'.                     *)
(***************************************************************************)
C21_RetainedIffNameInFilter ==
    (pc = "split" /\ envFail = {}) =>
        \A i \in tree :
            (Len(NodeUniverse[i].rel) = 1 /\ Typed(i)) =>
                (RecordOf(i) \in CollectedSet <=> NodeUniverse[i].rel \in filter)

(***************************************************************************)
(* C22.  A failed listing of the starting path ends the run with exit code *)
(* 1 before anything is downloaded or published.  A failed listing of any  *)
(* other directory does not: its record is in the result, the run goes on  *)
(* to the download and the publisher, and when nothing else failed it ends *)
(* where a run without the failure ends.                                   *)
(***************************************************************************)
OnlyListingFailed == envFail = {"list"}

C22_OnlyRootListingFailureIsFatal ==
    /\ root \in listFailed =>
          /\ InFlight = {}
          /\ pc \in {"collect", "close_client", "split", "done"}
          /\ pc = "done" => exitCode = 1 /\ stages = <<>> /\ ~zipExists
    /\ (listFailed # {} /\ root \notin listFailed) =>
          /\ InFlight # {}
          /\ pc = "split" => collected # <<>>
          /\ (pc = "done" /\ OnlyListingFailed) =>
                /\ "Staged" \in Range(stages)
                /\ exitCode = 1 => ~GitStatusAccepts(StatusFlag(program))

C22_Witness ==
    /\ pc = "done" /\ OnlyListingFailed
    /\ listFailed # {} /\ root \notin listFailed
    /\ RemoteFilePaths(collected) = {}
    /\ "Staged" \in Range(stages)

(***************************************************************************)
(* C23.  As claimed: when only removals of old archives fail, the prune    *)
(* loop has still issued a removal for every old archive, the publisher    *)
(* has gone on to stage, commit (or skip) and push, and the run ends with  *)
(* exit code 0.                                                            *)
(***************************************************************************)
C23_PruneFailureNotFatal ==
    (pc = "done" /\ envFail = {"git_rm"}) =>
        /\ \A x \in DOMAIN remote0 : ~PruneSkips(program, x) => x \in rmIssued
        /\ "Staged" \in Range(stages)
        /\ LastStage = "Pushed" /\ pushed
        /\ exitCode = 0

(***************************************************************************)
(* C24.  As claimed: in either script the prune loop never issues a        *)
(* removal for the path that has the new archive's file name.              *)
(***************************************************************************)
C24_NewArchiveNameNeverRemoved == NewName \notin rmIssued

(***************************************************************************)
(* C25.  As claimed: for every configured root, every member of the        *)
(* archive is the member of a collected record; there is no member for     *)
(* the traversal root, for a directory above it, or for a path that is not *)
(* in the collector's result.  It fails for a root other than '/'.         *)
(***************************************************************************)
C25_MembersOnlyForCollected ==
    (pc = "git_start" /\ program = "backup_and_upload") =>
        \A m \in archive :
            /\ m \in { ArchivePathOf(rec) : rec \in CollectedSet }
            /\ ~IsPrefix(m.name, root.comps)

(***************************************************************************)
(* C26.  A member whose write fails is the only one missing from the       *)
(* archive: every other member is written and the run goes on to the       *)
(* publisher.  Only a failure to open the archive file is raised; it ends  *)
(* the run with exit code 1 before the publisher.                          *)
(***************************************************************************)
\* the members a zip of the download directory has when every write succeeds
ExpectedMembers ==
    ZipMembers(
        UNION { MakeDirs(LocalDirPath(d)) : d \in RemoteDirPaths(collected) }
          \cup UNION { MakeDirs(Dirname(Path(FALSE, LocalSavePath(f), FALSE)).comps)
                         : f \in RemoteFilePaths(collected) },
        { LocalSavePath(f) : f \in RemoteFilePaths(collected) })

C26_MemberFailureSkipsOnlyThatMember ==
    /\ (program = "backup_and_upload" /\ pc = "git_start") =>
          /\ zipExists
          /\ archive \subseteq ExpectedMembers
          /\ Cardinality(ExpectedMembers \ archive) <= MaxZipFail
          /\ "zip_member" \notin envFail => archive = ExpectedMembers
    /\ "zip_member" \in envFail =>
          /\ "zip_open" \notin envFail
          /\ pc = "done" => "Cloned" \in Range(stages) \/ envFail \cap {"git_config", "clone"} # {}
    /\ "zip_open" \in envFail =>
          /\ pc = "done" /\ exitCode = 1
          /\ stages = <<>> /\ ~zipExists /\ archive = {}

C26_Witness ==
    /\ program = "backup_and_upload" /\ pc = "git_start"
    /\ "zip_member" \in envFail
    /\ Cardinality(ExpectedMembers) >= 3
    /\ Cardinality(archive) = Cardinality(ExpectedMembers) - 1

(***************************************************************************)
(* C27.  collect_remote_items leaves the session's working directory as it *)
(* found it: during the traversal and after every return, at any depth and *)
(* after failed listings too, it is the directory the session was in when  *)
(* the first call was made.                                                *)
(***************************************************************************)
C27_WorkingDirectoryUnchanged ==
    (program = "backup_and_upload" /\ client \in {"open", "closed"} /\ listedOk \cup listFailed # {})
        => sessionCwd = LoginDir

C27_Witness ==
    /\ pc = "close_client" /\ sessionCwd = LoginDir
    /\ listFailed # {} /\ Cardinality(listedOk) >= 3

(***************************************************************************)
(* C28.  The session is used by one operation at a time: the activations   *)
(* of collect_remote_items form a single chain in which only the innermost *)
(* one can be listing, each waiting for the call it made for one of its    *)
(* own entries; and the session is closed, with no activation left, before *)
(* any transfer is enqueued or runs.                                       *)
(***************************************************************************)
C28_SessionOperationsSequential ==
    /\ \A k \in DOMAIN stack :
          k < Len(stack) =>
              /\ stack[k].listed
              /\ Len(stack[k + 1].dir.comps) = Len(stack[k].dir.comps) + 1
              /\ IsStrictPrefix(stack[k].dir.comps, stack[k + 1].dir.comps)
    /\ stack # <<>> =>
          /\ pc = "collect" /\ client = "open"
          /\ pending = {} /\ localFiles = {}
    /\ (pc \in {"download", "mkdirs", "zip"} \/ pending # {} \/ localFiles # {}) =>
          /\ client = "closed"
          /\ stack = <<>>

C28_Witness ==
    /\ pc = "download" /\ client = "closed"
    /\ Cardinality(pending) >= 2 /\ localFiles # {}
    /\ Cardinality(listedOk) >= 3

(***************************************************************************)
(* C29.  An entry whose type tag is neither 'file' nor 'dir' has no record *)
(* and is never listed; every record's kind is the type tag the listing    *)
(* gave for its entry; and the entries listed after such an entry in the   *)
(* same directory are still collected.                                     *)
(***************************************************************************)
OtherTag(i) == NodeUniverse[i].tag \notin {"file", "dir", "none"}

C29_RecordsFollowTypeTag ==
    /\ \A rec \in InFlight :
          \E i \in tree : /\ NodePath(i).comps = rec.path.comps
                          /\ NodeUniverse[i].tag = rec.kind
    /\ \A i \in tree :
          OtherTag(i) =>
              /\ \A rec \in InFlight : rec.path.comps # NodePath(i).comps
              /\ \A d \in listedOk \cup listFailed : d.comps # NodePath(i).comps
              /\ \A k \in DOMAIN stack : stack[k].dir.comps # NodePath(i).comps
    /\ (pc = "split" /\ listFailed = {}) =>
          \A i, j \in tree :
              ( /\ OtherTag(i) /\ Typed(j)
                /\ ParentOf(i) = ParentOf(j)
                /\ [path |-> Path(TRUE, root.comps \o ParentOf(i), TRUE), kind |-> "dir"]
                       \in CollectedSet )
              => RecordOf(j) \in CollectedSet

C29_Witness ==
    /\ pc = "split" /\ listFailed = {}
    /\ \E i, j \in tree :
          /\ OtherTag(i) /\ Typed(j) /\ i < j
          /\ ParentOf(i) = ParentOf(j)
          /\ RecordOf(j) \in CollectedSet

(***************************************************************************)
(* C30.  In the list collect_remote_items returns (and in the list of      *)
(* every activation), the records beneath a directory record are exactly   *)
(* the ones that follow it immediately: the directory comes before all of  *)
(* its descendants and no record of another subtree lies between them.     *)
(***************************************************************************)
SubtreeContiguous(q) ==
    \A k \in DOMAIN q :
        q[k].kind = "dir" =>
            LET sub == { j \in DOMAIN q : IsStrictPrefix(q[k].path.comps, q[j].path.comps) }
            IN  sub = (k + 1)..(k + Cardinality(sub))

C30_DirectoryBeforeContiguousSubtree ==
    /\ SubtreeContiguous(collected)
    /\ \A k \in DOMAIN stack : SubtreeContiguous(stack[k].out)

C30_Witness ==
    /\ pc = "split" /\ Len(collected) >= 5
    /\ \E k \in DOMAIN collected :
          /\ collected[k].kind = "dir"
          /\ Cardinality({ j \in DOMAIN collected :
                 IsStrictPrefix(collected[k].path.comps, collected[j].path.comps) }) >= 3
          /\ \E j \in DOMAIN collected :
                /\ j > k
                /\ ~IsStrictPrefix(collected[k].path.comps, collected[j].path.comps)

(***************************************************************************)
(* C31.  Once collect_remote_items has returned to async_ftp_process with  *)
(* no record (the root is empty, no top-level name is in the filter, or    *)
(* the listing of the root failed), the script only closes the session and *)
(* exits with code 1: no download directory, no archive file and no clone  *)
(* directory exists at any later point, no file is enqueued, no clone is   *)
(* attempted and the remote repository is as it was.                       *)
(***************************************************************************)
CollectorReturnedNothing ==
    /\ program = "backup_and_upload"
    /\ stack = <<>>
    /\ root \in listedOk \cup listFailed
    /\ collected = <<>>

C31_EmptyCollectionExitsBeforeAnyWork ==
    CollectorReturnedNothing =>
        /\ pc \in {"close_client", "split", "done"}
        /\ pc = "done" => exitCode = 1
        /\ TEMP_LOCAL_DOWNLOAD_DIR \notin localDirs
        /\ localFiles = {} /\ pending = {}
        /\ ~zipExists /\ archive = {}
        /\ ~repoDir /\ stages = <<>> /\ "clone" \notin envFail
        /\ remote = remote0 /\ ~pushed

\* a run over a root that lists entries, none of them kept by the filter,
\* has ended
C31_Witness ==
    /\ CollectorReturnedNothing
    /\ pc = "done" /\ exitCode = 1
    /\ root \in listedOk
    /\ FtpList(tree, root, root) # <<>>

(***************************************************************************)
(* C32.  add_and_commit_backup and manage_and_push_backup work inside the  *)
(* clone and leave it on every way out: when the run has ended after the   *)
(* function was entered (it returned, raised, or called sys.exit), the     *)
(* process is back in the directory recorded at entry, which is the one    *)
(* the clone was made from, and the clone directory has been removed by    *)
(* the cleanup of __main__.  Outside the function the working directory    *)
(* is the start directory.                                                 *)
(***************************************************************************)
PublisherEntered == originalDir # NoDir

C32_WorkingDirectoryRestored ==
    /\ ~PublisherEntered => cwd = StartDir
    /\ (PublisherEntered /\ pc # "done") => cwd = clonedAt /\ cwd # originalDir
    /\ (PublisherEntered /\ pc = "done") =>
          /\ cwd = originalDir
          /\ PathJoin(cwd, TEMP_REPO_DIR) = clonedAt
          /\ ~repoDir

\* the function was left by sys.exit after it had changed into the clone
C32_Witness ==
    /\ PublisherEntered /\ pc = "done" /\ exitCode = 1
    /\ clonedAt = PathJoin(StartDir, TEMP_REPO_DIR)
    /\ "Staged" \in Range(stages)
    /\ cwd = StartDir

====
